---- MODULE Spec2Model ----
(***************************************************************************)
(* Model of src/app/page.js: four land-map scenes (VirtualLandMap,          *)
(* GoogleMapClone, VirtualCity, NaturalLandMap).  Each scene generates its  *)
(* plot records when it mounts and then reacts to pointer events and, in    *)
(* the map clone, to the two zoom buttons.                                  *)
(*                                                                          *)
(* Numbers: Math.random() returns r / RandScale; a city height h is stored  *)
(* as h * 10 * RandScale; a coordinate c is stored as c * 200.              *)
(***************************************************************************)
EXTENDS Integers, Sequences, FiniteSets, TLC

VARIABLES variant, N, rng, pc, plots, selected, hovered, zoom, last

vars == <<variant, N, rng, pc, plots, selected, hovered, zoom, last>>

(* ------------------------------ bounds --------------------------------- *)

\* grid dimensions tried besides the scene's own GRID_SIZE: -MaxNeg .. MaxN
MaxN == 4
MaxNeg == 2
\* grid dimensions of the scenes that go on to receive events: 0 .. MaxSceneN
MaxSceneN == 2
\* resolution of Math.random(): the draw r stands for r / RandScale
RandScale == 100
\* the random source is a cyclic stream of RandPeriod draws
RandPeriod == 3
\* number of lands of the map clone (LAND_COUNT, 100 in the source)
MaxLands == 2
\* longest polygon a Voronoi cell is given
MaxShapeLen == 4
\* number of lands of the map clones whose names are examined
MaxNameLands == 30

(* ------------------------- program constants --------------------------- *)

GRID_SIZE_basic == 10
GRID_SIZE_city == 12
GRID_SIZE_natural == 15
\* PLOT_SIZE and GAP in hundredths
PLOT_SIZE == 100
GAP_basic == 10
GAP_city == 15
GAP_natural == 5
ZOOM_INIT == 15
ZOOM_STEP == 5
ZOOM_MIN == 10
ZOOM_MAX == 50

GridVariants == {"basic", "city", "natural"}
Variants == GridVariants \cup {"clone"}

GRID_SIZE(v) ==
  CASE v = "basic" -> GRID_SIZE_basic
    [] v = "city" -> GRID_SIZE_city
    [] v = "natural" -> GRID_SIZE_natural

GAP(v) ==
  CASE v = "basic" -> GAP_basic
    [] v = "city" -> GAP_city
    [] v = "natural" -> GAP_natural

(* --------------------------- random source ----------------------------- *)

\* the draws that sit on and next to every threshold the code compares with
RandVals ==
  {0, RandScale - 1} \cup
  UNION {{(t * RandScale) \div 100, (t * RandScale) \div 100 + 1} : t \in {60, 85, 90}}

Streams == [0 .. RandPeriod - 1 -> RandVals]

\* Math.random(): the k-th draw of the stream
Random(r, k) == r[k % RandPeriod]

\* Math.random() > t / 100
Above(r, t) == r * 100 > t * RandScale

(* ---------------------------- grid records ----------------------------- *)

\* the id template without its separator
PlotIdNoSeparator(x, z) == ToString(x) \o ToString(z)

\* `${x}-${z}`
PlotId(x, z) == ToString(x) \o "-" \o ToString(z)

\* (x - GRID_SIZE / 2) * (PLOT_SIZE + GAP), in units of 1/200
Coord(v, n, x) == (2 * x - n) * (PLOT_SIZE + GAP(v))

Position(v, n, x, z) == <<Coord(v, n, x), 0, Coord(v, n, z)>>

\* one record of the basic grid
basicPlot(n, x, z) == [id |-> PlotId(x, z), position |-> Position("basic", n, x, z)]

\* VirtualLandMap: the inner loop, for (let z = 0; z < GRID_SIZE; z++); row is
\* what the loop has pushed for this x
RECURSIVE basicRow(_, _, _, _)
basicRow(n, x, z, row) ==
  IF ~(z < n) THEN row
  ELSE basicRow(n, x, z + 1, Append(row, basicPlot(n, x, z)))

\* both loops with <= in place of <
RECURSIVE basicLoopInclusive(_, _, _)
basicLoopInclusive(n, x, acc) ==
  IF ~(x <= n) THEN acc
  ELSE basicLoopInclusive(n, x + 1, acc \o basicRow(n + 1, x, 0, <<>>))

\* VirtualLandMap: the outer loop, for (let x = 0; x < GRID_SIZE; x++)
RECURSIVE basicLoop(_, _, _)
basicLoop(n, x, acc) ==
  IF ~(x < n) THEN acc
  ELSE basicLoop(n, x + 1, acc \o basicRow(n, x, 0, <<>>))

basicPlots(n) == basicLoop(n, 0, <<>>)

\* the residential height drawn with the commercial factor
cityCellTallHomes(r, k) ==
  LET rand == Random(r, k) IN
  IF Above(rand, 85)
    THEN [type |-> "commercial", height |-> 20 * Random(r, k + 1) + 15 * RandScale,
          next |-> k + 2]
  ELSE IF Above(rand, 60)
    THEN [type |-> "residential", height |-> 20 * Random(r, k + 1) + 5 * RandScale,
          next |-> k + 2]
  ELSE [type |-> "empty", height |-> 0, next |-> k + 1]

\* VirtualCity: type and height of one cell from the draws k, k+1 of r;
\* next is the index of the first draw the cell has not used
cityCell(r, k) ==
  LET rand == Random(r, k) IN
  IF Above(rand, 85)
    THEN [type |-> "commercial", height |-> 20 * Random(r, k + 1) + 15 * RandScale,
          next |-> k + 2]
  ELSE IF Above(rand, 60)
    THEN [type |-> "residential", height |-> 8 * Random(r, k + 1) + 5 * RandScale,
          next |-> k + 2]
  ELSE [type |-> "empty", height |-> 0, next |-> k + 1]

\* one record of the city grid
cityPlot(n, x, z, c) ==
  [id |-> PlotId(x, z), position |-> Position("city", n, x, z),
   type |-> c.type, height |-> c.height]

\* VirtualCity: the inner loop; the result carries the records pushed for this x
\* and the index of the next draw
RECURSIVE cityRow(_, _, _, _, _, _)
cityRow(n, r, x, z, k, row) ==
  IF ~(z < n) THEN [plots |-> row, next |-> k]
  ELSE LET c == cityCell(r, k) IN
       cityRow(n, r, x, z + 1, c.next, Append(row, cityPlot(n, x, z, c)))

\* VirtualCity: the outer loop
RECURSIVE cityLoop(_, _, _, _, _)
cityLoop(n, r, x, k, acc) ==
  IF ~(x < n) THEN acc
  ELSE LET row == cityRow(n, r, x, 0, k, <<>>) IN
       cityLoop(n, r, x + 1, row.next, acc \o row.plots)

cityData(n, r) == cityLoop(n, r, 0, 0, <<>>)

\* the water test with && in place of ||
naturalCellAnd(r, k, x, z) ==
  IF x < 3 /\ z > 12 THEN [type |-> "water", next |-> k]
  ELSE IF Above(Random(r, k), 90) THEN [type |-> "dirt", next |-> k + 1]
  ELSE [type |-> "grass", next |-> k + 1]

\* NaturalLandMap: type of the cell (x, z); the draw is made only outside the water
naturalCell(r, k, x, z) ==
  IF x < 3 \/ z > 12 THEN [type |-> "water", next |-> k]
  ELSE IF Above(Random(r, k), 90) THEN [type |-> "dirt", next |-> k + 1]
  ELSE [type |-> "grass", next |-> k + 1]

\* one record of the natural grid
naturalPlot(n, x, z, c) ==
  [id |-> PlotId(x, z), position |-> Position("natural", n, x, z), type |-> c.type]

\* NaturalLandMap: the inner loop
RECURSIVE landRow(_, _, _, _, _, _)
landRow(n, r, x, z, k, row) ==
  IF ~(z < n) THEN [plots |-> row, next |-> k]
  ELSE LET c == naturalCell(r, k, x, z) IN
       landRow(n, r, x, z + 1, c.next, Append(row, naturalPlot(n, x, z, c)))

\* NaturalLandMap: the outer loop
RECURSIVE landLoop(_, _, _, _, _)
landLoop(n, r, x, k, acc) ==
  IF ~(x < n) THEN acc
  ELSE LET row == landRow(n, r, x, 0, k, <<>>) IN
       landLoop(n, r, x + 1, row.next, acc \o row.plots)

landData(n, r) == landLoop(n, r, 0, 0, <<>>)

(* ------------------------------ map clone ------------------------------ *)

names == <<"Greenwood", "Sunnyvale", "Riverdale", "Highland", "Westside",
           "Oakwood", "Maple", "Cedar", "Pine", "Elm">>
types == <<"District", "Estate", "Heights", "Park", "Grove", "Gardens">>

\* the place name picked with the length of the type list
generateLandNameByTypes(id) ==
  names[(id % Len(types)) + 1] \o " " \o types[(id % Len(types)) + 1] \o " " \o ToString(id)

\* `${names[id % names.length]} ${types[id % types.length]} ${id}`
generateLandName(id) ==
  names[(id % Len(names)) + 1] \o " " \o types[(id % Len(types)) + 1] \o " " \o ToString(id)

\* voronoi.cellPolygon(i) is library code: it hands back null or a list of
\* points; a list of len points is taken to be the first len of a fixed outline
Outline(len) == [j \in 1 .. len |-> <<j, j * j>>]
NullShape == [present |-> FALSE, points |-> <<>>]
ShapeSet == {NullShape} \cup {[present |-> TRUE, points |-> Outline(len)] : len \in 0 .. MaxShapeLen}

\* one entry of lands; r is the draw of isPark
land(i, shape, r) ==
  [id |-> i, name |-> generateLandName(i), shape |-> shape,
   color |-> IF Above(r, 85) THEN "#C5E8C5" ELSE "#F8F9FA"]

\* GoogleMapClone: points.map(...); the 2 * count draws of points come first
lands(count, r, shapes) ==
  [i \in 1 .. count |-> land(i - 1, shapes[i - 1], Random(r, 2 * count + i - 1))]

\* LandPolygon below its guard: shape[0][0] throws on null and on an empty list
LandPolygonBody(l, isSelected) ==
  IF ~l.shape.present \/ Len(l.shape.points) = 0 THEN [kind |-> "throw"]
  ELSE [kind |-> "group",
        mesh |-> [path |-> l.shape.points,
                  color |-> IF isSelected THEN "#4285F4" ELSE l.color],
        border |-> [count |-> Len(l.shape.points) + 1,
                    array |-> l.shape.points \o <<l.shape.points[1]>>],
        label |-> IF isSelected THEN <<[at |-> l.shape.points[1], text |-> l.name]>>
                  ELSE <<>>]

\* the guard testing only for null
LandPolygonNullOnly(l, isSelected) ==
  IF ~l.shape.present THEN [kind |-> "null"]
  ELSE LandPolygonBody(l, isSelected)

\* LandPolygon: what the component returns
LandPolygon(l, isSelected) ==
  IF ~l.shape.present \/ Len(l.shape.points) < 3 THEN [kind |-> "null"]
  ELSE LandPolygonBody(l, isSelected)

(* ------------------------------ mounting ------------------------------- *)

NoEvent == [op |-> "none"]

\* useState(false) in every LandPlot
NoHover(ps) == [i \in DOMAIN ps |-> FALSE]

MountBasic ==
  /\ pc = "init" /\ variant = "basic"
  /\ plots' = basicPlots(N)
  /\ hovered' = NoHover(plots')
  /\ pc' = "mounted"
  /\ UNCHANGED <<variant, N, rng, selected, zoom, last>>

MountCity ==
  /\ pc = "init" /\ variant = "city"
  /\ plots' = cityData(N, rng)
  /\ hovered' = NoHover(plots')
  /\ pc' = "mounted"
  /\ UNCHANGED <<variant, N, rng, selected, zoom, last>>

MountNatural ==
  /\ pc = "init" /\ variant = "natural"
  /\ plots' = landData(N, rng)
  /\ hovered' = NoHover(plots')
  /\ pc' = "mounted"
  /\ UNCHANGED <<variant, N, rng, selected, zoom, last>>

\* GoogleMapClone: plots holds lands; LandPolygon keeps no hover flag
MountClone ==
  /\ pc = "init" /\ variant = "clone"
  /\ \E shapes \in [0 .. N - 1 -> ShapeSet] : plots' = lands(N, rng, shapes)
  /\ pc' = "mounted"
  /\ UNCHANGED <<variant, N, rng, selected, hovered, zoom, last>>

\* GoogleMapClone mounted where the library gives every cell the same shape
MountCloneOneShape ==
  /\ pc = "init" /\ variant = "clone"
  /\ \E s \in ShapeSet : plots' = lands(N, rng, [i \in 0 .. N - 1 |-> s])
  /\ pc' = "mounted"
  /\ UNCHANGED <<variant, N, rng, selected, hovered, zoom, last>>

(* ------------------------------- events -------------------------------- *)

\* isSelected={selectedPlot === plot.id}
isSelected(i) == selected = <<plots[i].id>>

\* the lands that have a mesh to click
Rendered == {i \in DOMAIN plots : LandPolygon(plots[i], isSelected(i)).kind = "group"}

\* a click handler that clears the selection on a second click
toggleSelected(sel, id) == IF sel = <<id>> THEN <<>> ELSE <<id>>

\* setSelectedPlot(id) / setSelectedId(land.id): the new selection
setSelected(sel, id) == <<id>>

\* where the click comes from, seen from the clicked plot
From(sel, id) == IF sel = <<>> THEN "none" ELSE IF sel = <<id>> THEN "same" ELSE "other"

\* a click that also marks the clicked record
ClickMarking(i) ==
  /\ pc = "mounted"
  /\ variant = "clone" => i \in Rendered
  /\ selected' = setSelected(selected, plots[i].id)
  /\ plots' = [plots EXCEPT ![i] = [@ EXCEPT !.position = <<0, 0, 0>>]]
  /\ last' = [op |-> "click", id |-> plots[i].id, from |-> From(selected, plots[i].id)]
  /\ UNCHANGED <<variant, N, rng, pc, hovered, zoom>>

\* onClick of a plot's mesh; VirtualLandMap rebuilds plots on every render
Click(i) ==
  /\ pc = "mounted"
  /\ variant = "clone" => i \in Rendered
  /\ selected' = setSelected(selected, plots[i].id)
  /\ plots' = IF variant = "basic" THEN basicPlots(N) ELSE plots
  /\ last' = [op |-> "click", id |-> plots[i].id, from |-> From(selected, plots[i].id)]
  /\ UNCHANGED <<variant, N, rng, pc, hovered, zoom>>

\* onPointerOver={() => setHover(true)}
PointerOver(i) ==
  /\ pc = "mounted" /\ variant # "clone"
  /\ hovered' = [hovered EXCEPT ![i] = TRUE]
  /\ last' = [op |-> "over", id |-> plots[i].id]
  /\ UNCHANGED <<variant, N, rng, pc, plots, selected, zoom>>

\* onPointerOut={() => setHover(false)}
PointerOut(i) ==
  /\ pc = "mounted" /\ variant # "clone"
  /\ hovered' = [hovered EXCEPT ![i] = FALSE]
  /\ last' = [op |-> "out", id |-> plots[i].id]
  /\ UNCHANGED <<variant, N, rng, pc, plots, selected, zoom>>

Min(a, b) == IF a < b THEN a ELSE b
Max(a, b) == IF a > b THEN a ELSE b

\* the + button without its clamp
zoomInUnclamped(z) == z + ZOOM_STEP

\* z => Math.min(z + 5, 50)
zoomIn(z) == Min(z + ZOOM_STEP, ZOOM_MAX)

\* z => Math.max(z - 5, 10)
zoomOut(z) == Max(z - ZOOM_STEP, ZOOM_MIN)

ZoomIn ==
  /\ pc = "mounted" /\ variant = "clone"
  /\ zoom' = zoomIn(zoom)
  /\ last' = [op |-> "zoomIn", from |-> zoom]
  /\ UNCHANGED <<variant, N, rng, pc, plots, selected, hovered>>

ZoomOut ==
  /\ pc = "mounted" /\ variant = "clone"
  /\ zoom' = zoomOut(zoom)
  /\ last' = [op |-> "zoomOut", from |-> zoom]
  /\ UNCHANGED <<variant, N, rng, pc, plots, selected, hovered>>

(* ------------------------------ materials ------------------------------ *)

\* LandPlot of VirtualLandMap: color and emissive of the box
basicMaterial(isSel, hov) ==
  [color |-> IF isSel THEN "#bd00ff" ELSE IF hov THEN "#00f3ff" ELSE "#1a1a1a",
   emissive |-> IF isSel THEN "#bd00ff" ELSE IF hov THEN "#00f3ff" ELSE "#000"]

\* LandPlot of VirtualCity: baseColor and glowColor before the hover override
cityColors(type, isSel) ==
  IF type = "residential" THEN [base |-> "#001a33", glow |-> "#00aaff"]
  ELSE IF type = "commercial" THEN [base |-> "#1a0033", glow |-> "#bd00ff"]
  ELSE IF isSel THEN [base |-> "#330000", glow |-> "#ff0000"]
  ELSE [base |-> "#050505", glow |-> "#000"]

\* LandPlot of VirtualCity: color and emissive of the base plot
cityMaterial(type, isSel, hov) ==
  [color |-> cityColors(type, isSel).base,
   emissive |-> IF hov THEN "#ffffff" ELSE cityColors(type, isSel).glow]

\* LandPlot of NaturalLandMap: the palette
colors == [grass |-> "#4d7c0f", dirt |-> "#78350f", water |-> "#0ea5e9", selected |-> "#facc15"]

\* LandPlot of NaturalLandMap: currentColor
naturalMaterial(type, isSel, hov) ==
  [color |-> IF isSel THEN colors.selected ELSE IF hov THEN "#65a30d" ELSE colors[type]]

\* the material of the i-th plot in the present state
Material(i) ==
  CASE variant = "basic" -> basicMaterial(isSelected(i), hovered[i])
    [] variant = "city" -> cityMaterial(plots[i].type, isSelected(i), hovered[i])
    [] variant = "natural" -> naturalMaterial(plots[i].type, isSelected(i), hovered[i])
    [] variant = "clone" -> LandPolygon(plots[i], isSelected(i)).mesh

(* ------------------------- generator properties ------------------------ *)

\* the cell of the i-th record pushed by the nested loops
CellX(i) == (i - 1) \div N
CellZ(i) == (i - 1) % N

Ids == {plots[i].id : i \in DOMAIN plots}

\* C2: for every grid variant and every dimension N > 0 the generation loop
\* produces exactly N*N records, one per (x, z) of [0,N) x [0,N) carrying the
\* id "x-z", and no two records share an id.
C2_GridComplete ==
  (pc = "mounted" /\ N > 0) =>
    /\ Len(plots) = N * N
    /\ \A x, z \in 0 .. N - 1 :
         plots[x * N + z + 1].id = ToString(x) \o "-" \o ToString(z)
    /\ Cardinality(Ids) = Len(plots)

\* a grid wide enough for two-digit coordinates has been generated
C2_Witness ==
  /\ pc = "mounted" /\ N >= 12
  /\ Len(plots) = N * N
  /\ {"1-11", "11-1"} \subseteq Ids

\* C3: in the natural map a record is water exactly when its cell has x < 3
\* or z > 12, whatever was drawn; every other record is grass or dirt.
C3_WaterRule ==
  (pc = "mounted" /\ variant = "natural") =>
    \A i \in DOMAIN plots :
      /\ plots[i].type = "water" <=> (CellX(i) < 3 \/ CellZ(i) > 12)
      /\ plots[i].type \in {"water", "grass", "dirt"}

\* a natural map with water on both sides of the rule, grass and dirt
C3_Witness ==
  /\ pc = "mounted" /\ variant = "natural" /\ N = GRID_SIZE_natural
  /\ \E i \in DOMAIN plots : CellX(i) < 3 /\ CellZ(i) <= 12 /\ plots[i].type = "water"
  /\ \E i \in DOMAIN plots : CellX(i) >= 3 /\ CellZ(i) > 12 /\ plots[i].type = "water"
  /\ \E i \in DOMAIN plots : plots[i].type = "grass"
  /\ \E i \in DOMAIN plots : plots[i].type = "dirt"

\* heights are stored times HeightDen
HeightDen == 10 * RandScale

C9_EmptyGrid ==
  (pc = "mounted" /\ N <= 0) => plots = <<>>

\* the loops have run for a negative dimension
C9_Witness ==
  /\ pc = "mounted" /\ N < 0 /\ plots = <<>>

(* --------------------------- scene properties -------------------------- *)

Mounted == pc = "mounted"

\* C1: a click on a plot leaves the selection equal to that plot's id, whether
\* nothing, another plot or the plot itself was selected before, and never more
\* than one plot has isSelected true.
C1_ClickSelects ==
  /\ last.op = "click" => selected = <<last.id>>
  /\ Cardinality({i \in DOMAIN plots : isSelected(i)}) <= 1

\* the selected plot has been clicked again
C1_Witness ==
  /\ last.op = "click" /\ last.from = "same"
  /\ Len(plots) > 1
  /\ Cardinality({i \in DOMAIN plots : isSelected(i)}) = 1

\* C5: in the map clone a land whose shape is null or has fewer than 3 points
\* yields no mesh, border or label, selected or not, and raises nothing; a land
\* with 3 or more points is rendered.
C5_ShapeGuard ==
  (Mounted /\ variant = "clone") =>
    \A i \in DOMAIN plots : \A sel \in BOOLEAN :
      LET out == LandPolygon(plots[i], sel)
          ok == plots[i].shape.present /\ Len(plots[i].shape.points) >= 3
      IN /\ out.kind # "throw"
         /\ ok => (out.kind = "group" /\ i \in Rendered)
         /\ ~ok => (out.kind = "null" /\ i \notin Rendered)

\* a map with a null shape beside a rendered, selected land
C5_Witness ==
  /\ Mounted /\ variant = "clone"
  /\ \E i \in DOMAIN plots : ~plots[i].shape.present
  /\ \E i \in DOMAIN plots : i \in Rendered /\ isSelected(i)

\* the colour a plot's category gives it when idle
CategoryMaterial(i) ==
  CASE variant = "basic" -> [color |-> "#1a1a1a", emissive |-> "#000"]
    [] variant = "city" ->
         (CASE plots[i].type = "residential" -> [color |-> "#001a33", emissive |-> "#00aaff"]
            [] plots[i].type = "commercial" -> [color |-> "#1a0033", emissive |-> "#bd00ff"]
            [] plots[i].type = "empty" -> [color |-> "#050505", emissive |-> "#000"])
    [] variant = "natural" -> [color |-> colors[plots[i].type]]
    [] variant = "clone" -> [color |-> plots[i].color]

\* the selection colour of a scene
SelectionColor ==
  CASE variant = "basic" -> "#bd00ff"
    [] variant = "city" -> "#330000"
    [] variant = "natural" -> "#facc15"
    [] variant = "clone" -> "#4285F4"

\* the hover colour of a plot: the city shows it as the glow, the map clone has none
ShowsHover(i) ==
  CASE variant = "basic" -> Material(i).color = "#00f3ff"
    [] variant = "city" -> Material(i).emissive = "#ffffff"
    [] variant = "natural" -> Material(i).color = "#65a30d"

IsHovered(i) == variant # "clone" /\ hovered[i]

\* C6: in every variant the colour of a plot follows selected > hovered >
\* category: a selected plot shows the selection colour, a hovered unselected
\* plot the hover colour, an idle plot its category colour.
C6_ColorPrecedence ==
  Mounted =>
    \A i \in DOMAIN plots \ (IF variant = "clone" THEN DOMAIN plots \ Rendered ELSE {}) :
      /\ isSelected(i) => Material(i).color = SelectionColor
      /\ (~isSelected(i) /\ IsHovered(i)) => ShowsHover(i)
      /\ (~isSelected(i) /\ ~IsHovered(i)) => Material(i).color = CategoryMaterial(i).color

\* C7: pointer-enter makes the plot hovered, pointer-leave makes it idle, and
\* after any sequence of the two at most one plot is hovered.
C7_OneHovered ==
  /\ last.op = "over" => \E i \in DOMAIN plots : plots[i].id = last.id /\ hovered[i]
  /\ last.op = "out" => \E i \in DOMAIN plots : plots[i].id = last.id /\ ~hovered[i]
  /\ Cardinality({i \in DOMAIN hovered : hovered[i]}) <= 1

\* C8: from 15 the zoom stays within [10, 50] under any presses of + and -;
\* + at 50 and - at 10 leave it as it is.
C8_ZoomClamped ==
  /\ ZOOM_MIN <= zoom /\ zoom <= ZOOM_MAX
  /\ (last.op = "zoomIn" /\ last.from = ZOOM_MAX) => zoom = ZOOM_MAX
  /\ (last.op = "zoomOut" /\ last.from = ZOOM_MIN) => zoom = ZOOM_MIN

\* + has been pressed at the upper limit
C8_Witness ==
  /\ last.op = "zoomIn" /\ last.from = ZOOM_MAX /\ zoom = ZOOM_MAX

\* C10: no pointer event and no zoom press changes a generated record; the
\* handlers write only the selection, the hover flags and the zoom.
C10_RecordsReadOnly ==
  [][Mounted => (plots' = plots /\ variant' = variant /\ N' = N /\ rng' = rng)]_vars

\* a plot of a rebuilt list has been clicked while another is hovered
C10_Witness ==
  /\ Mounted /\ variant = "basic" /\ last.op = "click"
  /\ \E i \in DOMAIN plots : hovered[i] /\ ~isSelected(i)

\* C11: there is no deselect path: a click always leaves a plot selected, and
\* once a plot is selected no click, hover event or zoom press brings the
\* selection back to none.
C11_NoDeselect ==
  [][/\ selected # <<>> => selected' # <<>>
     /\ last'.op = "click" => selected' # <<>>]_vars

\* a plot is still selected after a hover or zoom event that followed the click
C11_Witness ==
  /\ Mounted /\ selected # <<>>
  /\ last.op \in {"over", "out", "zoomIn", "zoomOut"}

(* ---------------------------- name properties -------------------------- *)

\* list[k] of JavaScript: undefined past the end of the list
At(list, k) == IF k + 1 \in DOMAIN list THEN list[k + 1] ELSE "undefined"

\* C12 as stated: the name of land i is names[i mod 10], types[i mod 10] and i,
\* joined by spaces.
C12_BothByTen ==
  (Mounted /\ variant = "clone") =>
    \A i \in DOMAIN plots :
      plots[i].name =
        At(names, plots[i].id % 10) \o " " \o At(types, plots[i].id % 10) \o " "
          \o ToString(plots[i].id)

\* C12: the name of land i is names[i mod 10], types[i mod 6] and i, joined by
\* spaces: each word list is indexed modulo its own length.
C12_NameByOwnLength ==
  (Mounted /\ variant = "clone") =>
    /\ Len(names) = 10 /\ Len(types) = 6
    /\ \A i \in DOMAIN plots :
         /\ plots[i].id = i - 1
         /\ plots[i].name =
              At(names, plots[i].id % 10) \o " " \o At(types, plots[i].id % 6) \o " "
                \o ToString(plots[i].id)

\* lands whose id leaves different remainders by 10 and by 6 have been named
C12_Witness ==
  /\ Mounted /\ variant = "clone" /\ Len(plots) >= 17
  /\ plots[7].name = "Maple District 6"
  /\ plots[17].name = "Maple Grove 16"

(* --------------------------- specifications ---------------------------- *)

GridDims(v) == ((0 - MaxNeg) .. MaxN) \cup {GRID_SIZE(v)}

Unmounted ==
  /\ pc = "init"
  /\ plots = <<>>
  /\ selected = <<>>
  /\ hovered = <<>>
  /\ zoom = ZOOM_INIT
  /\ last = NoEvent

\* the basic scene makes no draw
ZeroStream == [k \in 0 .. RandPeriod - 1 |-> 0]

InitGen ==
  /\ variant \in GridVariants
  /\ N \in GridDims(variant)
  /\ rng \in IF variant = "basic" THEN {ZeroStream} ELSE Streams
  /\ Unmounted

NextGen == MountBasic \/ MountCity \/ MountNatural

SpecGen == InitGen /\ [][NextGen]_vars

\* the scenes that receive events: the same draw is repeated, below 0.6, between
\* 0.6 and 0.85, or above 0.9
SceneRandVals == {0, (60 * RandScale) \div 100 + 1, (90 * RandScale) \div 100 + 1}
SceneStreams == {[k \in 0 .. RandPeriod - 1 |-> v] : v \in SceneRandVals}

Init ==
  /\ variant \in Variants
  /\ N \in IF variant = "clone" THEN {MaxLands} ELSE 0 .. MaxSceneN
  /\ rng \in IF variant = "basic" THEN {ZeroStream} ELSE SceneStreams
  /\ Unmounted

Next ==
  \/ MountBasic \/ MountCity \/ MountNatural \/ MountClone
  \/ \E i \in DOMAIN plots : Click(i)
  \/ \E i \in DOMAIN plots : PointerOver(i)
  \/ \E i \in DOMAIN plots : PointerOut(i)
  \/ ZoomIn \/ ZoomOut

Spec == Init /\ [][Next]_vars

\* the map clones whose names are examined
InitName ==
  /\ variant = "clone"
  /\ N \in 1 .. MaxNameLands
  /\ rng \in SceneStreams
  /\ Unmounted

NextName == MountCloneOneShape

SpecName == InitName /\ [][NextName]_vars

====
